---- MODULE Spec2Model ----
(***************************************************************************)
(* A model of blitz's event synthesizer (src/src/events.rs):               *)
(* BlitzEventHandler::register_event, drain_events and prune, over a small *)
(* retained document tree, and of its style resolvers (src/src/style.rs):  *)
(* the reduce of ForgroundColor, BackgroundColor and Border.  The Focus    *)
(* Controller (crate::focus), the hit test (crate::mouse::get_hovered) and *)
(* the pass that drives the resolvers are collaborators whose code is not  *)
(* part of the two source files; they are modelled from spec.md.           *)
(***************************************************************************)
EXTENDS Integers, Sequences, FiniteSets, TLC

(***************************************************************************)
(* Bounds of the model.                                                    *)
(***************************************************************************)
\* register_event is only taken while fewer than MaxQueue events are queued
MaxQueue == 1
\* the clock (Instant::now(), in ms since construction) stops advancing here
MaxTime == 501
\* the largest cursor x coordinate the platform reports, in half pixels
MaxX == 4
\* the longest edit batch handed to prune
MaxEdits == 1
\* the colours a declaration can name besides black
MaxColors == 1

(***************************************************************************)
(* Program constants.                                                      *)
(***************************************************************************)
\* const DBL_CLICK_TIME: Duration = Duration::from_millis(500)
DBL_CLICK_TIME == 500
\* element: Some(ElementId(1)) of the keypress event
KeypressTarget == 1

\* Option<T>: None is the empty sequence, Some(v) the sequence of v alone
None == <<>>

Some(v) == <<v>>

\* Option::unwrap
Unwrap(o) == o[1]

(***************************************************************************)
(* The retained tree (rdom: &Dom) as the handler reads it.  The document   *)
(* is   1 -> <<2, 3>>,  2 -> <<4>>;   4 is a text node.                    *)
(***************************************************************************)
Node == {1, 2, 3, 4}

\* NodeType::Element { children, .. } of rdom[n].node_type
Children(n) ==
    CASE n = 1 -> <<2, 3>>
      [] n = 2 -> <<4>>
      [] OTHER -> <<>>

\* rdom[n].node_type
NodeType(n) == IF n = 4 THEN "Text" ELSE "Element"

\* rdom[n].state.prevent_default
PreventDefaultOf(n) == IF n = 3 THEN "MouseUp" ELSE "None"

\* rdom[n].state.focus.level.focusable()
Focusable(n) == n \in {2, 3}

\* the layout box of a node on the cursor's row, in half pixels: [lo, hi)
Box(n) ==
    CASE n = 1 -> <<0, 4>>
      [] n = 2 -> <<0, 2>>
      [] n = 3 -> <<2, 3>>
      [] n = 4 -> <<1, 2>>

Depth(n) ==
    CASE n = 1 -> 0
      [] n = 4 -> 2
      [] OTHER -> 1

\* get_hovered(rdom, viewport_size, pos): the deepest node of the tree whose
\* box holds the position, None when there is none
GetHovered(tree, x) ==
    LET hit == {n \in tree : Box(n)[1] <= x /\ x < Box(n)[2]}
    IN  IF hit = {} THEN None
        ELSE Some(CHOOSE n \in hit : \A m \in hit : Depth(m) <= Depth(n))

(***************************************************************************)
(* State.                                                                  *)
(***************************************************************************)
VARIABLES
    \* CursorState
    position,              \* position: Coordinates (the truncated pixel)
    buttons,               \* buttons: MouseButtonSet
    last_click,            \* last_click: Option<Instant>
    last_pressed_element,  \* last_pressed_element: Option<ElementId>
    last_clicked_element,  \* last_clicked_element: Option<ElementId>
    hovered,               \* hovered: Option<ElementId>
    \* EventState
    modifier_state,        \* modifier_state: Modifiers
    last_focused_id,       \* focus_state.last_focused_id
    \* BlitzEventHandler
    queued_events,         \* queued_events: Vec<UserEvent>
    \* environment
    rdom,                  \* the nodes that are in the tree
    now,                   \* Instant::now(), ms
    \* history
    drained,               \* the Vec the last operation returned, if drain_events
    click_log,             \* node and time of the last click event emitted
    press_log,             \* the node of the last press, whether the cursor
                           \* has moved between that press and the release
                           \* after it, and whether that release has come
    focus_calls,           \* the calls the last operation made on the Focus
                           \* Controller
    ignored,               \* the last operation was a button transition
                           \* registered while no node was hovered
    entered,               \* the nodes of the tree whose latest hover event,
                           \* in all that was ever queued, is a mouseenter
    \* the tree's attributes and the Style of its nodes
    color_attr,            \* the color attribute of each element
    color,                 \* Style.color of each node
    bg_attr,               \* the background-color attribute of one element
    bg_color,              \* its Style.bg_color
    border_attrs,          \* its border attributes, as node.attributes()
                           \* enumerates them
    border,                \* its Style.border
    panicked,              \* a reduce has panicked
    \* history
    color_changed,         \* what reduce returned for each node in the last
                           \* pass over the tree, None once an attribute has
                           \* changed since
    reduced                \* the node-local resolver last run and what it
                           \* returned, None once an attribute has changed

\* the handler, the tree it reads and its history
handler_vars == <<position, buttons, last_click, last_pressed_element,
                  last_clicked_element, hovered, modifier_state,
                  last_focused_id, queued_events, rdom, now, drained,
                  click_log, press_log, focus_calls, ignored, entered>>

style_vars == <<color_attr, color, bg_attr, bg_color, border_attrs, border,
                panicked, color_changed, reduced>>

vars == <<handler_vars, style_vars>>

cursor_vars == <<position, buttons, last_click, last_pressed_element,
                 last_clicked_element, hovered>>

\* UserEvent { element, name, data, .. }: the target (an Option<ElementId>),
\* the name and, of the payload, the logical key of a keyboard event (None in
\* a mouse event)
UserEvent(name, element, key) == [name |-> name, element |-> element, key |-> key]

(***************************************************************************)
(* Inputs of the platform events.                                          *)
(***************************************************************************)
\* position.x of CursorMoved, in half pixels
CursorXs == 0..MaxX
\* tao::event::ElementState
ElementStates == {"Pressed", "Released"}
\* tao::event::MouseButton
MouseButtons == {"Left"}
\* event.logical_key
Keys == {"Tab", "a", "Enter"}
\* (alt_key, control_key, super_key, shift_key) of ModifiersChanged
ModifierInputs == {<<FALSE, FALSE, FALSE, FALSE>>, <<FALSE, FALSE, TRUE, TRUE>>,
                   <<TRUE, TRUE, FALSE, FALSE>>}
\* how far the clock moves between two operations, ms
TickSteps == {500, 501}

(***************************************************************************)
(* The Focus Controller (crate::focus::FocusState), from spec.md 4.2.      *)
(***************************************************************************)
\* the focusable nodes of the tree in document order
FocusOrder(tree) == SelectSeq(<<1, 2, 4, 3>>, LAMBDA n : n \in tree /\ Focusable(n))

IndexOf(seq, n) == CHOOSE i \in 1..Len(seq) : seq[i] = n

\* FocusState::progress(rdom, forward): the next (previous) focusable node in
\* document order, wrapping; the first (last) one when nothing in the order
\* is focused; no change when nothing is focusable
Progress(tree, cur, forward) ==
    LET order == FocusOrder(tree)
        len   == Len(order)
    IN  IF len = 0 THEN cur
        ELSE IF cur # None /\ \E i \in 1..len : order[i] = Unwrap(cur)
             THEN LET i == IndexOf(order, Unwrap(cur))
                  IN  IF forward THEN Some(order[(i % len) + 1])
                      ELSE Some(order[((i + len - 2) % len) + 1])
             ELSE IF forward THEN Some(order[1]) ELSE Some(order[len])

\* FocusState::set_focus(rdom, id): unconditionally the focused node
SetFocus(cur, id) == Some(id)

\* a call of progress(rdom, forward), as the history records it
ProgressCall(forward) ==
    [op |-> "progress", forward |-> Some(forward), id |-> None]

\* a call of set_focus(rdom, id), as the history records it
SetFocusCall(id) == [op |-> "set_focus", forward |-> None, id |-> Some(id)]

(***************************************************************************)
(* register_event: KeyboardInput.                                          *)
(***************************************************************************)
\* KeypressEvents without the test of event.text
KeypressEventsAnyKey(key, has_text, state) ==
    IF state = "Pressed"
    THEN <<UserEvent("keypress", Some(KeypressTarget), Some(key))>>
    ELSE <<>>

\* the keypress pushed when a key that has text is pressed
KeypressEvents(key, has_text, state) ==
    IF state = "Pressed" /\ has_text
    THEN <<UserEvent("keypress", Some(KeypressTarget), Some(key))>>
    ELSE <<>>

\* if let Key::Tab = event.logical_key, inside the Pressed branch
IsTabPress(key, state) == state = "Pressed" /\ key = "Tab"

\* TabForward with the negation left out
TabForwardInverted(modifiers) == "SHIFT" \in modifiers

\* !self.state.modifier_state.contains(Modifiers::SHIFT)
TabForward(modifiers) == ~("SHIFT" \in modifiers)

\* name: match event.state { Pressed => "keydown", Released => "keyup" }
KeyEventName(state) == IF state = "Pressed" THEN "keydown" ELSE "keyup"

\* KeyboardEvents with the keypress pushed after the keydown
KeyboardEventsKeypressLast(key, has_text, state, focused) ==
    IF IsTabPress(key, state)
    THEN KeypressEvents(key, has_text, state)
    ELSE <<UserEvent(KeyEventName(state), focused, Some(key))>>
         \o KeypressEvents(key, has_text, state)

\* KeyboardEvents with the keydown and keyup targeted at the keypress target
KeyboardEventsAtRoot(key, has_text, state, focused) ==
    IF IsTabPress(key, state)
    THEN KeypressEvents(key, has_text, state)
    ELSE KeypressEvents(key, has_text, state)
         \o <<UserEvent(KeyEventName(state), Some(KeypressTarget), Some(key))>>

\* KeyboardEvents without the return of the Tab branch
KeyboardEventsNoReturn(key, has_text, state, focused) ==
    KeypressEvents(key, has_text, state)
    \o <<UserEvent(KeyEventName(state), focused, Some(key))>>

\* the events one KeyboardInput pushes
KeyboardEvents(key, has_text, state, focused) ==
    IF IsTabPress(key, state)
    THEN KeypressEvents(key, has_text, state)
    ELSE KeypressEvents(key, has_text, state)
         \o <<UserEvent(KeyEventName(state), focused, Some(key))>>

KeyboardInput(key, has_text, state) ==
    /\ Len(queued_events) < MaxQueue
    /\ queued_events' = queued_events
                        \o KeyboardEvents(key, has_text, state, last_focused_id)
    /\ last_focused_id' =
           IF IsTabPress(key, state)
           THEN Progress(rdom, last_focused_id, TabForward(modifier_state))
           ELSE last_focused_id
    /\ focus_calls' =
           IF IsTabPress(key, state)
           THEN <<ProgressCall(TabForward(modifier_state))>>
           ELSE <<>>
    /\ drained' = <<>>
    /\ ignored' = FALSE
    /\ UNCHANGED <<cursor_vars, modifier_state, rdom, now, click_log, press_log,
                   entered>>
    /\ UNCHANGED style_vars

(***************************************************************************)
(* register_event: ModifiersChanged.                                       *)
(***************************************************************************)
ModifiersOf(mods) ==
    (IF mods[1] THEN {"ALT"} ELSE {})
    \cup (IF mods[2] THEN {"CONTROL"} ELSE {})
    \cup (IF mods[3] THEN {"META"} ELSE {})
    \cup (IF mods[4] THEN {"SHIFT"} ELSE {})

ModifiersChanged(mods) ==
    /\ Len(queued_events) < MaxQueue
    /\ modifier_state' = ModifiersOf(mods)
    /\ drained' = <<>>
    /\ focus_calls' = <<>>
    /\ ignored' = FALSE
    /\ UNCHANGED <<cursor_vars, last_focused_id, queued_events, rdom, now,
                   click_log, press_log, entered>>
    /\ UNCHANGED style_vars

(***************************************************************************)
(* register_event: CursorMoved.                                            *)
(***************************************************************************)
\* pos.x as i32: the pixel of a half-pixel coordinate
AsI32(x) == x \div 2

\* HoverEvents with the two pushes of the hover switch exchanged
HoverEventsLeaveFirst(new, old) ==
    IF new # None /\ old # None
    THEN IF new # old
         THEN <<UserEvent("mouseleave", old, None),
                UserEvent("mouseenter", new, None)>>
         ELSE <<>>
    ELSE IF new # None /\ old = None
    THEN <<UserEvent("mouseenter", new, None)>>
    ELSE IF new = None /\ old # None
    THEN <<UserEvent("mouseleave", old, None)>>
    ELSE <<>>

\* the events of match (hovered, self.state.cursor_state.hovered)
HoverEvents(new, old) ==
    IF new # None /\ old # None
    THEN IF new # old
         THEN <<UserEvent("mouseenter", new, None),
                UserEvent("mouseleave", old, None)>>
         ELSE <<>>
    ELSE IF new # None /\ old = None
    THEN <<UserEvent("mouseenter", new, None)>>
    ELSE IF new = None /\ old # None
    THEN <<UserEvent("mouseleave", old, None)>>
    ELSE <<>>

\* HoverNext with the assignment of the (None, Some(old_hovered)) arm left out
HoverNextNoClear(new, old) ==
    IF new # None /\ old # None
    THEN IF new # old THEN new ELSE old
    ELSE IF new # None /\ old = None
    THEN new
    ELSE old

\* HoverNext with the assignment of the hover switch left out
HoverNextNoSwitch(new, old) ==
    IF new # None /\ old = None THEN new
    ELSE IF new = None /\ old # None THEN None
    ELSE old

\* self.state.cursor_state.hovered after that match
HoverNext(new, old) ==
    IF new # None /\ old # None
    THEN IF new # old THEN new ELSE old
    ELSE IF new # None /\ old = None
    THEN new
    ELSE IF new = None /\ old # None
    THEN None
    ELSE old

\* the nodes whose latest hover event is a mouseenter, once evs have followed
\* a history that left that set at open
RECURSIVE EnteredAfter(_, _)
EnteredAfter(open, evs) ==
    IF evs = <<>> THEN open
    ELSE LET e == Head(evs)
         IN  EnteredAfter(IF e.name = "mouseenter"
                          THEN open \cup {Unwrap(e.element)}
                          ELSE IF e.name = "mouseleave"
                          THEN open \ {Unwrap(e.element)}
                          ELSE open,
                          Tail(evs))

CursorMoved(x) ==
    /\ Len(queued_events) < MaxQueue
    /\ LET new == GetHovered(rdom, x)
       IN  /\ queued_events' = queued_events \o HoverEvents(new, hovered)
           /\ hovered' = HoverNext(new, hovered)
           /\ entered' = EnteredAfter(entered, HoverEvents(new, hovered))
    /\ position' = AsI32(x)
    /\ press_log' = IF press_log = None \/ Unwrap(press_log).released
                    THEN press_log
                    ELSE Some([Unwrap(press_log) EXCEPT !.moved = TRUE])
    /\ drained' = <<>>
    /\ focus_calls' = <<>>
    /\ ignored' = FALSE
    /\ UNCHANGED <<buttons, last_click, last_pressed_element,
                   last_clicked_element, modifier_state, last_focused_id,
                   rdom, now, click_log>>
    /\ UNCHANGED style_vars

(***************************************************************************)
(* register_event: MouseInput.                                             *)
(***************************************************************************)
\* match button { Left => Primary, ..., Other(4) => Fourth, _ => Unknown }
MapButton(button) ==
    CASE button = "Left"   -> "Primary"
      [] button = "Middle" -> "Auxiliary"
      [] button = "Right"  -> "Secondary"
      [] button = "Other4" -> "Fourth"
      [] button = "Other5" -> "Fifth"
      [] OTHER             -> "Unknown"

\* buttons |= button on a press, buttons.remove(button) on a release
ButtonsNext(set, state, button) ==
    IF state = "Pressed" THEN set \cup {MapButton(button)}
    ELSE set \ {MapButton(button)}

\* ButtonsAfter with the update of the set ahead of the test of hovered
ButtonsAfterUnguarded(h, set, state, button) == ButtonsNext(set, state, button)

\* the pressed-button set after a transition: updated inside
\* if let Some(hovered) = self.state.cursor_state.hovered
ButtonsAfter(h, set, state, button) ==
    IF h = None THEN set ELSE ButtonsNext(set, state, button)

\* ClickDue without the comparison with the hovered node
ClickDueAnyPress(pressed, h) == pressed # None

\* self.state.cursor_state.last_pressed_element.take() == Some(hovered)
ClickDue(pressed, h) == pressed = Some(h)

\* last_clicked.elapsed()
Elapsed(instant, t) == t - instant

\* DblClickDue with <= for <
DblClickDueInclusive(click, clicked, h, t) ==
    /\ click # None
    /\ clicked = Some(h)
    /\ Elapsed(Unwrap(click), t) <= DBL_CLICK_TIME

\* last_click.take() is Some(last_clicked), last_clicked_element is
\* Some(hovered) and last_clicked.elapsed() < DBL_CLICK_TIME
DblClickDue(click, clicked, h, t) ==
    /\ click # None
    /\ clicked = Some(h)
    /\ Elapsed(Unwrap(click), t) < DBL_CLICK_TIME

\* ReleaseEvents with click pushed before mouseup
ReleaseEventsClickFirst(h, pressed, click, clicked, t) ==
    (IF ClickDue(pressed, h)
     THEN <<UserEvent("click", Some(h), None)>>
     ELSE <<>>)
    \o <<UserEvent("mouseup", Some(h), None)>>
    \o (IF ClickDue(pressed, h) /\ DblClickDue(click, clicked, h, t)
        THEN <<UserEvent("dblclick", Some(h), None)>>
        ELSE <<>>)

\* the events a release pushes while h is hovered
ReleaseEvents(h, pressed, click, clicked, t) ==
    <<UserEvent("mouseup", Some(h), None)>>
    \o (IF ClickDue(pressed, h)
        THEN <<UserEvent("click", Some(h), None)>>
             \o (IF DblClickDue(click, clicked, h, t)
                 THEN <<UserEvent("dblclick", Some(h), None)>>
                 ELSE <<>>)
        ELSE <<>>)

\* LastClickAfter that keeps the time of an earlier click
LastClickAfterKeepFirst(click, pressed, h, t) ==
    IF ClickDue(pressed, h) /\ click = None THEN Some(t) ELSE click

\* self.state.cursor_state.last_click after a release while h is hovered:
\* Some(Instant::now()) inside the click branch, untouched outside it
LastClickAfter(click, pressed, h, t) ==
    IF ClickDue(pressed, h) THEN Some(t) ELSE click

\* LastPressedAfterRelease of a release that reads the slot and leaves it
LastPressedAfterReleaseKept(pressed) == pressed

\* self.state.cursor_state.last_pressed_element after the take() of a release
LastPressedAfterRelease(pressed) == None

\* the events a press pushes while h is hovered
PressEvents(h) == <<UserEvent("mousedown", Some(h), None)>>

\* *prevent_default != PreventDefault::MouseUp
\*     && rdom[hovered].state.focus.level.focusable(), after the match on state
FocusDue(h, state) == PreventDefaultOf(h) # "MouseUp" /\ Focusable(h)

MouseInput(state, button) ==
    /\ Len(queued_events) < MaxQueue
    /\ IF hovered = None
       THEN /\ buttons' = ButtonsAfter(hovered, buttons, state, button)
            /\ focus_calls' = <<>>
            /\ UNCHANGED <<queued_events, last_pressed_element,
                           last_clicked_element, last_click, last_focused_id,
                           click_log, press_log>>
       ELSE LET h == Unwrap(hovered)
            IN  /\ buttons' = ButtonsAfter(hovered, buttons, state, button)
                /\ IF state = "Pressed"
                   THEN /\ queued_events' = queued_events \o PressEvents(h)
                        /\ last_pressed_element' = Some(h)
                        /\ press_log' = Some([node |-> h, moved |-> FALSE,
                                               released |-> FALSE])
                        /\ UNCHANGED <<last_clicked_element, last_click,
                                       click_log>>
                   ELSE /\ queued_events' = queued_events
                               \o ReleaseEvents(h, last_pressed_element,
                                      last_click, last_clicked_element, now)
                        /\ last_pressed_element' =
                               LastPressedAfterRelease(last_pressed_element)
                        /\ press_log' =
                             IF press_log = None THEN None
                             ELSE Some([Unwrap(press_log)
                                           EXCEPT !.released = TRUE])
                        /\ last_clicked_element' =
                               IF ClickDue(last_pressed_element, h)
                               THEN Some(h) ELSE last_clicked_element
                        /\ last_click' =
                               LastClickAfter(last_click, last_pressed_element,
                                              h, now)
                        /\ click_log' =
                             IF \E i \in 1..Len(queued_events') :
                                   /\ i > Len(queued_events)
                                   /\ queued_events'[i].name = "click"
                             THEN Some([node |-> h, at |-> now])
                             ELSE click_log
                /\ last_focused_id' =
                       IF FocusDue(h, state) THEN SetFocus(last_focused_id, h)
                       ELSE last_focused_id
                /\ focus_calls' =
                       IF FocusDue(h, state) THEN <<SetFocusCall(h)>>
                       ELSE <<>>
    /\ drained' = <<>>
    /\ ignored' = (hovered = None)
    /\ UNCHANGED <<position, hovered, modifier_state, rdom, now, entered>>
    /\ UNCHANGED style_vars

(***************************************************************************)
(* drain_events.                                                           *)
(***************************************************************************)
\* std::mem::swap(&mut self.queued_events, &mut events): what is returned
DrainReturn(queue) == queue

\* DrainLeft of a drain that clones the queue instead of swapping it out
DrainLeftClone(queue) == queue

\* and what is left in self.queued_events
DrainLeft(queue) == <<>>

DrainEvents ==
    /\ drained' = DrainReturn(queued_events)
    /\ queued_events' = DrainLeft(queued_events)
    /\ focus_calls' = <<>>
    /\ ignored' = FALSE
    /\ UNCHANGED <<cursor_vars, modifier_state, last_focused_id, rdom, now,
                   click_log, press_log, entered>>
    /\ UNCHANGED style_vars

(***************************************************************************)
(* prune.                                                                  *)
(***************************************************************************)
\* the three node slots of CursorState that prune_id writes
Slots == [hovered |-> hovered,
          last_pressed_element |-> last_pressed_element,
          last_clicked_element |-> last_clicked_element]

\* fn prune_id(&mut self, removed: ElementId)
PruneId(cs, removed) ==
    [hovered |->
         IF cs.hovered # None /\ Unwrap(cs.hovered) = removed
         THEN None ELSE cs.hovered,
     last_pressed_element |->
         IF cs.last_pressed_element # None
            /\ Unwrap(cs.last_pressed_element) = removed
         THEN None ELSE cs.last_pressed_element,
     last_clicked_element |->
         IF cs.last_clicked_element # None
            /\ Unwrap(cs.last_clicked_element) = removed
         THEN None ELSE cs.last_clicked_element]

\* the children rdom[n] lists: those of the document that are in the tree
ChildrenIn(tree, n) == SelectSeq(Children(n), LAMBDA c : c \in tree)

RECURSIVE RemoveChildren(_, _, _)
RECURSIVE RemoveEach(_, _, _)

\* for child in children { remove_children(handler, rdom, *child) }
RemoveEach(cs, tree, children) ==
    IF children = <<>> THEN cs
    ELSE RemoveEach(RemoveChildren(cs, tree, Head(children)), tree,
                    Tail(children))

\* remove_children without the walk over the children
RemoveChildrenShallow(cs, tree, removed) == PruneId(cs, removed)

\* fn remove_children(handler, rdom, removed)
RemoveChildren(cs, tree, removed) ==
    IF NodeType(removed) = "Element"
    THEN RemoveEach(PruneId(cs, removed), tree, ChildrenIn(tree, removed))
    ELSE PruneId(cs, removed)

\* the edits whose root prune walks
IsRemoval(edit) == edit.op \in {"ReplaceWith", "Remove"}

RECURSIVE PruneEdits(_, _, _)
\* for m in &mutations.edits { match m { ReplaceWith | Remove => ..., _ => () } }
PruneEdits(cs, tree, edits) ==
    IF edits = <<>> THEN cs
    ELSE PruneEdits(IF IsRemoval(Head(edits))
                    THEN RemoveChildren(cs, tree, Head(edits).root)
                    ELSE cs,
                    tree, Tail(edits))

\* dioxus::core::DomEdit: the two removals of a node of the tree, and PopRoot
\* for every other kind (its root field is not read)
Edits(tree) ==
    [op : {"ReplaceWith", "Remove"}, root : tree]
    \cup [op : {"PopRoot"}, root : {0}]

\* the edit batches of k edits over a tree
Batches(tree, k) == [1..k -> Edits(tree)]

\* the parent of each node in the document, None for the root
ParentOf ==
    [n \in Node |->
        IF \E p \in Node : \E i \in 1..Len(Children(p)) : Children(p)[i] = n
        THEN Some(CHOOSE p \in Node :
                      \E i \in 1..Len(Children(p)) : Children(p)[i] = n)
        ELSE None]

RECURSIVE IsUnder(_, _)
\* n is root or one of its descendants
IsUnder(n, root) ==
    \/ n = root
    \/ ParentOf[n] # None /\ IsUnder(Unwrap(ParentOf[n]), root)

\* the subtree of each node in the document: the node and its descendants
SubtreeOf == [root \in Node |-> {n \in Node : IsUnder(n, root)}]

\* the nodes a batch removes from the tree: the subtrees of its removals
RemovedBy(tree, edits) ==
    tree \cap UNION {SubtreeOf[edits[i].root] :
                        i \in {j \in 1..Len(edits) : IsRemoval(edits[j])}}

\* the tree once the producer has applied the batch, after prune (spec.md 4.3)
ApplyEdits(tree, edits) == tree \ RemovedBy(tree, edits)

\* QueueAfterPrune of a prune that drops the queued events of removed nodes
QueueAfterPruneFiltered(queue, tree, edits) ==
    SelectSeq(queue, LAMBDA e : \/ e.element = None
                                \/ Unwrap(e.element) \notin RemovedBy(tree, edits))

\* self.queued_events after prune, which neither reads nor writes it
QueueAfterPrune(queue, tree, edits) == queue

Prune(edits) ==
    /\ LET cs == PruneEdits(Slots, rdom, edits)
       IN  /\ hovered' = cs.hovered
           /\ last_pressed_element' = cs.last_pressed_element
           /\ last_clicked_element' = cs.last_clicked_element
    /\ rdom' = ApplyEdits(rdom, edits)
    /\ entered' = entered \ RemovedBy(rdom, edits)
    /\ drained' = <<>>
    /\ focus_calls' = <<>>
    /\ ignored' = FALSE
    /\ queued_events' = QueueAfterPrune(queued_events, rdom, edits)
    /\ UNCHANGED <<position, buttons, last_click, modifier_state,
                   last_focused_id, now, click_log, press_log>>
    /\ UNCHANGED style_vars

(***************************************************************************)
(* Style (src/src/style.rs): the values a declaration can hold.            *)
(***************************************************************************)
\* CssColor::RGBA(RGBA::new(red, green, blue, alpha))
Rgba(r, g, b, a) == <<r, g, b, a>>

\* the colours a declaration names: black and MaxColors others
DeclaredColors == {Rgba(i, 0, 0, 255) : i \in 0..MaxColors}

\* the text of an attribute value, by what the property-language parser makes
\* of it: a value of the property, tokens that are no value of the property,
\* and text that the parser rejects
ValueText(v) == [css |-> "value", value |-> Some(v)]

UnparsedText == [css |-> "unparsed", value |-> None]

RejectedText == [css |-> "rejected", value |-> None]

\* an attribute value that is text (as_text() is Some) and one that is not
Text(t) == [as_text |-> Some(t)]

NotText == [as_text |-> None]

\* the tree's elements: the nodes that carry attributes
Elements == {n \in Node : NodeType(n) = "Element"}

\* node.attributes().next() of the color or background-color attribute: None
\* when the attribute is absent, the attribute's value otherwise
ColorAttributes ==
    {None} \cup {Some(Text(ValueText(c))) : c \in DeclaredColors}
           \cup {Some(Text(RejectedText)), Some(NotText)}

\* CssColor::parse(&mut parser): Ok(colour) as Some(colour), Err as None
CssColorParse(t) == IF t.css = "value" THEN t.value ELSE None

\* ForgroundColor of Style::default()
ForgroundColorDefault == Rgba(0, 0, 0, 255)

\* BackgroundColor of Style::default()
BackgroundColorDefault == Rgba(255, 255, 255, 0)

\* what a reduce leaves in self and what it returns
Reduced(value, changed) == [value |-> value, changed |-> changed]

(***************************************************************************)
(* ForgroundColor::reduce and the top-down pass that drives it.            *)
(***************************************************************************)
\* ForgroundColorReduce that never reads the parent
ForgroundColorReduceNoParent(self, attr, parent) ==
    IF /\ attr # None
       /\ Unwrap(attr).as_text # None
       /\ CssColorParse(Unwrap(Unwrap(attr).as_text)) # None
       /\ self # Unwrap(CssColorParse(Unwrap(Unwrap(attr).as_text)))
    THEN Reduced(Unwrap(CssColorParse(Unwrap(Unwrap(attr).as_text))), TRUE)
    ELSE Reduced(self, FALSE)

\* fn reduce(&mut self, node, parent: Option<&Self>, _) -> bool
ForgroundColorReduce(self, attr, parent) ==
    IF parent # None
    THEN IF self # Unwrap(parent)
         THEN Reduced(Unwrap(parent), TRUE)
         ELSE Reduced(self, FALSE)
    ELSE IF attr # None
    THEN IF Unwrap(attr).as_text # None
         THEN LET parsed == CssColorParse(Unwrap(Unwrap(attr).as_text))
              IN  IF parsed # None
                  THEN IF self # Unwrap(parsed)
                       THEN Reduced(Unwrap(parsed), TRUE)
                       ELSE Reduced(self, FALSE)
                  ELSE Reduced(self, FALSE)
         ELSE Reduced(self, FALSE)
    ELSE Reduced(self, FALSE)

\* the nodes of the document, parent before child
DocumentOrder == <<1, 2, 4, 3>>

\* the color attribute the NodeView of n shows: text nodes carry none
ColorAttrOf(attrs, n) == IF n \in DOMAIN attrs THEN attrs[n] ELSE None

RECURSIVE ResolveColors(_, _, _)
\* one pass over the nodes of order: reduce on each with the ForgroundColor
\* its parent has by then (spec.md 4.4: parent before child)
ResolveColors(st, attrs, order) ==
    IF order = <<>> THEN st
    ELSE LET n      == Head(order)
             parent == IF ParentOf[n] = None THEN None
                       ELSE Some(st.color[Unwrap(ParentOf[n])])
             r      == ForgroundColorReduce(st.color[n], ColorAttrOf(attrs, n),
                                            parent)
         IN  ResolveColors([color   |-> [st.color EXCEPT ![n] = r.value],
                            changed |-> [st.changed EXCEPT ![n] = r.changed]],
                           attrs, Tail(order))

\* the producer sets, replaces or removes the color attribute of an element
SetColorAttr(n, a) ==
    /\ ~panicked
    /\ color_attr[n] # a
    /\ color_attr' = [color_attr EXCEPT ![n] = a]
    /\ color_changed' = None
    /\ UNCHANGED <<color, bg_attr, bg_color, border_attrs, border, panicked,
                   reduced>>
    /\ UNCHANGED handler_vars

\* one top-down pass of ForgroundColor::reduce over the tree
ResolveForeground ==
    /\ ~panicked
    /\ LET st == ResolveColors([color   |-> color,
                                changed |-> [n \in Node |-> FALSE]],
                               color_attr, DocumentOrder)
       IN  /\ color' = st.color
           /\ color_changed' = Some(st.changed)
    /\ UNCHANGED <<color_attr, bg_attr, bg_color, border_attrs, border,
                   panicked, reduced>>
    /\ UNCHANGED handler_vars

(***************************************************************************)
(* BackgroundColor::reduce.                                                *)
(***************************************************************************)
\* BackgroundColorReduce that returns true whenever a colour was parsed
BackgroundColorReduceAlways(self, attr) ==
    IF /\ attr # None
       /\ Unwrap(attr).as_text # None
       /\ CssColorParse(Unwrap(Unwrap(attr).as_text)) # None
    THEN Reduced(Unwrap(CssColorParse(Unwrap(Unwrap(attr).as_text))), TRUE)
    ELSE Reduced(self, FALSE)

\* fn reduce(&mut self, node, _sibling: (), _) -> bool
BackgroundColorReduce(self, attr) ==
    IF attr # None
    THEN IF Unwrap(attr).as_text # None
         THEN LET parsed == CssColorParse(Unwrap(Unwrap(attr).as_text))
              IN  IF parsed # None
                  THEN IF self # Unwrap(parsed)
                       THEN Reduced(Unwrap(parsed), TRUE)
                       ELSE Reduced(self, FALSE)
                  ELSE Reduced(self, FALSE)
         ELSE Reduced(self, FALSE)
    ELSE Reduced(self, FALSE)

\* the producer sets, replaces or removes the background-color attribute
SetBackgroundAttr(a) ==
    /\ ~panicked
    /\ bg_attr # a
    /\ bg_attr' = a
    /\ reduced' = [reduced EXCEPT !.bg_color = None]
    /\ UNCHANGED <<color_attr, color, bg_color, border_attrs, border, panicked,
                   color_changed>>
    /\ UNCHANGED handler_vars

ReduceBackground ==
    /\ ~panicked
    /\ LET r == BackgroundColorReduce(bg_color, bg_attr)
       IN  /\ bg_color' = r.value
           /\ reduced' = [reduced EXCEPT !.bg_color = Some(r.changed)]
    /\ UNCHANGED <<color_attr, color, bg_attr, border_attrs, border, panicked,
                   color_changed>>
    /\ UNCHANGED handler_vars

(***************************************************************************)
(* Border::reduce.                                                         *)
(***************************************************************************)
\* a value on each of the four sides, and on each of the four corners
Sides(v) == [top |-> v, right |-> v, bottom |-> v, left |-> v]

Corners(v) == [top_left |-> v, top_right |-> v, bottom_right |-> v,
               bottom_left |-> v]

\* CssColor::default()
CssColorDefault == Rgba(0, 0, 0, 0)

\* impl Default for Border
BorderDefault ==
    [colors |-> Sides(CssColorDefault),
     radius |-> Corners("BorderRadius::default()"),
     width  |-> Sides("BorderSideWidth::default()")]

\* the three shorthands of the attribute mask
Shorthands == {"border-color", "border-radius", "border-width"}

\* a.name.into(): the Property variant of an attribute name of the mask
PropertyOf(name) ==
    CASE name = "border-color"               -> "BorderColor"
      [] name = "border-top-color"           -> "BorderTopColor"
      [] name = "border-right-color"         -> "BorderRightColor"
      [] name = "border-bottom-color"        -> "BorderBottomColor"
      [] name = "border-left-color"          -> "BorderLeftColor"
      [] name = "border-radius"              -> "BorderRadius"
      [] name = "border-top-left-radius"     -> "BorderTopLeftRadius"
      [] name = "border-top-right-radius"    -> "BorderTopRightRadius"
      [] name = "border-bottom-right-radius" -> "BorderBottomRightRadius"
      [] name = "border-bottom-left-radius"  -> "BorderBottomLeftRadius"
      [] name = "border-width"               -> "BorderWidth"
      [] name = "border-top-width"           -> "BorderTopWidth"
      [] name = "border-right-width"         -> "BorderRightWidth"
      [] name = "border-bottom-width"        -> "BorderBottomWidth"
      [] name = "border-left-width"          -> "BorderLeftWidth"

\* Property::parse(a.name.into(), &mut parser, ..): Ok(property) as
\* Some(property), Err as None.  A shorthand of one value holds it on every
\* side; tokens that are no value of the property come back as a property
\* of another variant.
PropertyParse(name, t) ==
    IF t.css = "value"
    THEN Some([property |-> PropertyOf(name),
               value    |-> IF name = "border-radius"
                            THEN Corners(Unwrap(t.value))
                            ELSE IF name \in Shorthands
                            THEN Sides(Unwrap(t.value))
                            ELSE Unwrap(t.value)])
    ELSE IF t.css = "unparsed"
    THEN Some([property |-> "Unparsed", value |-> None])
    ELSE None

\* the arms of match Property::parse(..).unwrap() { .. }
ApplyProperty(new, p) ==
    CASE p.property = "BorderColor"       -> [new EXCEPT !.colors = p.value]
      [] p.property = "BorderTopColor"    -> [new EXCEPT !.colors.top = p.value]
      [] p.property = "BorderRightColor"  -> [new EXCEPT !.colors.right = p.value]
      [] p.property = "BorderBottomColor" -> [new EXCEPT !.colors.bottom = p.value]
      [] p.property = "BorderLeftColor"   -> [new EXCEPT !.colors.left = p.value]
      [] p.property = "BorderRadius"      -> [new EXCEPT !.radius = p.value]
      [] p.property = "BorderTopLeftRadius" ->
             [new EXCEPT !.radius.top_left = p.value]
      [] p.property = "BorderTopRightRadius" ->
             [new EXCEPT !.radius.top_right = p.value]
      [] p.property = "BorderBottomRightRadius" ->
             [new EXCEPT !.radius.bottom_right = p.value]
      [] p.property = "BorderBottomLeftRadius" ->
             [new EXCEPT !.radius.bottom_left = p.value]
      [] p.property = "BorderWidth"       -> [new EXCEPT !.width = p.value]
      [] p.property = "BorderTopWidth"    -> [new EXCEPT !.width.top = p.value]
      [] p.property = "BorderRightWidth"  -> [new EXCEPT !.width.right = p.value]
      [] p.property = "BorderBottomWidth" -> [new EXCEPT !.width.bottom = p.value]
      [] p.property = "BorderLeftWidth"   -> [new EXCEPT !.width.left = p.value]
      [] OTHER                            -> new

RECURSIVE BorderApplyAll(_, _)
\* for a in node.attributes() { .. }: Some(new) after the last attribute, None
\* when one of the two unwraps panics
BorderApplyAll(new, attrs) ==
    IF attrs = <<>> THEN Some(new)
    ELSE LET a == Head(attrs)
         IN  IF a.value.as_text = None THEN None
             ELSE LET parsed == PropertyParse(a.name, Unwrap(a.value.as_text))
                  IN  IF parsed = None THEN None
                      ELSE BorderApplyAll(ApplyProperty(new, Unwrap(parsed)),
                                          Tail(attrs))

\* fn reduce(&mut self, node, _sibling: (), _) -> bool
BorderReduce(self, attrs) ==
    LET new == BorderApplyAll(BorderDefault, attrs)
    IN  IF new = None THEN [panic |-> TRUE, value |-> self, changed |-> FALSE]
        ELSE IF self # Unwrap(new)
        THEN [panic |-> FALSE, value |-> Unwrap(new), changed |-> TRUE]
        ELSE [panic |-> FALSE, value |-> self, changed |-> FALSE]

\* the attribute names of the mask that the producer declares
BorderNames == {"border-color", "border-top-color"}

\* the values it declares for them
BorderValues ==
    {Text(ValueText(c)) : c \in DeclaredColors}
    \cup {Text(UnparsedText), Text(RejectedText), NotText}

\* node.attributes() under the mask: every enumeration of attributes of
\* different names
BorderViews ==
    UNION {{view \in [1..k -> [name : BorderNames, value : BorderValues]] :
               \A i, j \in 1..k : i # j => view[i].name # view[j].name} :
           k \in 0..Cardinality(BorderNames)}

\* the producer replaces the border attributes of the element
SetBorderAttrs(view) ==
    /\ ~panicked
    /\ border_attrs # view
    /\ border_attrs' = view
    /\ reduced' = [reduced EXCEPT !.border = None]
    /\ UNCHANGED <<color_attr, color, bg_attr, bg_color, border, panicked,
                   color_changed>>
    /\ UNCHANGED handler_vars

ReduceBorder ==
    /\ ~panicked
    /\ LET r == BorderReduce(border, border_attrs)
       IN  /\ panicked' = r.panic
           /\ border' = r.value
           /\ reduced' = IF r.panic THEN reduced
                         ELSE [reduced EXCEPT !.border = Some(r.changed)]
    /\ UNCHANGED <<color_attr, color, bg_attr, bg_color, border_attrs,
                   color_changed>>
    /\ UNCHANGED handler_vars

(***************************************************************************)
(* The clock.                                                              *)
(***************************************************************************)
Tick(d) ==
    /\ now + d <= MaxTime
    /\ now' = now + d
    /\ UNCHANGED <<cursor_vars, modifier_state, last_focused_id,
                   queued_events, rdom, drained, click_log, press_log,
                   focus_calls, ignored, entered>>
    /\ UNCHANGED style_vars

(***************************************************************************)
(* The specification.                                                      *)
(***************************************************************************)
\* BlitzEventHandler::new(focus_state): every field at its Default
Init ==
    /\ position = 0
    /\ buttons = {}
    /\ last_click = None
    /\ last_pressed_element = None
    /\ last_clicked_element = None
    /\ hovered = None
    /\ modifier_state = {}
    /\ last_focused_id = None
    /\ queued_events = <<>>
    /\ rdom = Node
    /\ now = 0
    /\ drained = <<>>
    /\ click_log = None
    /\ press_log = None
    /\ focus_calls = <<>>
    /\ ignored = FALSE
    /\ entered = {}
    /\ color_attr = [n \in Elements |-> None]
    /\ color = [n \in Node |-> ForgroundColorDefault]
    /\ bg_attr = None
    /\ bg_color = BackgroundColorDefault
    /\ border_attrs = <<>>
    /\ border = BorderDefault
    /\ panicked = FALSE
    /\ color_changed = None
    /\ reduced = [bg_color |-> None, border |-> None]

Next ==
    \/ \E key \in Keys, has_text \in BOOLEAN, state \in ElementStates :
           KeyboardInput(key, has_text, state)
    \/ \E mods \in ModifierInputs : ModifiersChanged(mods)
    \/ \E x \in CursorXs : CursorMoved(x)
    \/ \E state \in ElementStates, button \in MouseButtons :
           MouseInput(state, button)
    \/ DrainEvents
    \/ \E k \in 1..MaxEdits : \E edits \in Batches(rdom, k) : Prune(edits)
    \/ \E d \in TickSteps : Tick(d)
    \/ \E n \in Elements, a \in ColorAttributes : SetColorAttr(n, a)
    \/ ResolveForeground
    \/ \E a \in ColorAttributes : SetBackgroundAttr(a)
    \/ ReduceBackground
    \/ \E view \in BorderViews : SetBorderAttrs(view)
    \/ ReduceBorder

Spec == Init /\ [][Next]_vars

\* the pointer alone: cursor moves and button transitions against a fixed tree
NextPointer ==
    \/ \E x \in CursorXs : CursorMoved(x)
    \/ \E state \in ElementStates, button \in MouseButtons :
           MouseInput(state, button)
    \/ DrainEvents
    \/ \E d \in TickSteps : Tick(d)

SpecPointer == Init /\ [][NextPointer]_vars

\* the keyboard alone
NextKeys ==
    \/ \E key \in Keys, has_text \in BOOLEAN, state \in ElementStates :
           KeyboardInput(key, has_text, state)
    \/ \E mods \in ModifierInputs : ModifiersChanged(mods)
    \/ DrainEvents

SpecKeys == Init /\ [][NextKeys]_vars

\* the pointer over a tree that the producer edits
NextPrune ==
    \/ \E x \in CursorXs : CursorMoved(x)
    \/ \E state \in ElementStates, button \in MouseButtons :
           MouseInput(state, button)
    \/ \E k \in 1..MaxEdits : \E edits \in Batches(rdom, k) : Prune(edits)
    \/ DrainEvents

SpecPrune == Init /\ [][NextPrune]_vars

\* the pointer and the keyboard over a tree that the producer edits
NextPruneKeys ==
    \/ \E x \in CursorXs : CursorMoved(x)
    \/ \E state \in ElementStates, button \in MouseButtons :
           MouseInput(state, button)
    \/ \E key \in Keys, has_text \in BOOLEAN, state \in ElementStates :
           KeyboardInput(key, has_text, state)
    \/ \E k \in 1..MaxEdits : \E edits \in Batches(rdom, k) : Prune(edits)
    \/ DrainEvents

SpecPruneKeys == Init /\ [][NextPruneKeys]_vars

\* the pointer and the keyboard over a fixed tree
NextPointerKeys ==
    \/ \E x \in CursorXs : CursorMoved(x)
    \/ \E state \in ElementStates, button \in MouseButtons :
           MouseInput(state, button)
    \/ \E key \in Keys, has_text \in BOOLEAN, state \in ElementStates :
           KeyboardInput(key, has_text, state)
    \/ DrainEvents

SpecPointerKeys == Init /\ [][NextPointerKeys]_vars

\* the color attributes of the tree and the passes of ForgroundColor over it
NextForeground ==
    \/ \E n \in Elements, a \in ColorAttributes : SetColorAttr(n, a)
    \/ ResolveForeground

SpecForeground == Init /\ [][NextForeground]_vars

\* the node-local resolvers of one element
NextNodeLocal ==
    \/ \E a \in ColorAttributes : SetBackgroundAttr(a)
    \/ ReduceBackground
    \/ \E view \in BorderViews : SetBorderAttrs(view)
    \/ ReduceBorder

SpecNodeLocal == Init /\ [][NextNodeLocal]_vars

(***************************************************************************)
(* Properties.                                                             *)
(***************************************************************************)
\* the events a step appends to the queue
Appended ==
    SubSeq(queued_events', Len(queued_events) + 1, Len(queued_events'))

\* a step that only appends to the queue
Appends == /\ Len(queued_events') >= Len(queued_events)
           /\ SubSeq(queued_events', 1, Len(queued_events)) = queued_events

\* a mouse event at node h
MouseEvent(name, h) == UserEvent(name, Some(h), None)

\* the hover transition table of spec.md 4.1, by the new and the old hovered node
TransitionTable(new, old) ==
    CASE new # None /\ old # None /\ new # old ->
             <<UserEvent("mouseenter", new, None),
               UserEvent("mouseleave", old, None)>>
      [] new # None /\ old = None -> <<UserEvent("mouseenter", new, None)>>
      [] new = None /\ old # None -> <<UserEvent("mouseleave", old, None)>>
      [] OTHER -> <<>>

\* C1: after every cursor move the stored hovered node is the result of the
\* hit test at the position of that move, None included.
C1_HoveredIsHitTest ==
    [][\A x \in CursorXs :
           CursorMoved(x) => hovered' = GetHovered(rdom, x)]_vars

\* C1 witness: the cursor has left the last node for a position outside every
\* box, and no node is hovered.
C1_Witness ==
    /\ hovered = None
    /\ position = AsI32(MaxX)
    /\ GetHovered(rdom, MaxX) = None
    /\ Len(queued_events) = 1
    /\ queued_events[1].name = "mouseleave"

\* C2: a cursor move appends exactly the events of the hover transition table:
\* mouseenter(new) then mouseleave(old) on a switch, mouseenter(new) alone on
\* entering, mouseleave(old) alone on leaving, nothing otherwise.
C2_HoverTable ==
    [][\A x \in CursorXs :
           CursorMoved(x) =>
               queued_events' = queued_events
                   \o TransitionTable(GetHovered(rdom, x), hovered)]_vars

\* C2 witness: a direct switch from one node to another has queued the enter of
\* the new node and then the leave of the old one.
C2_Witness ==
    /\ Len(queued_events) = 2
    /\ queued_events[1].name = "mouseenter"
    /\ queued_events[2].name = "mouseleave"
    /\ queued_events[1].element = hovered
    /\ queued_events[2].element # hovered

\* a press registered while a node is hovered queues mousedown at that node
PressQueuesMousedown ==
    \A button \in MouseButtons :
        MouseInput("Pressed", button) /\ hovered # None =>
            queued_events' = queued_events
                \o <<MouseEvent("mousedown", Unwrap(hovered))>>

\* the release that follows a press on the hovered node with no cursor move
\* between them
ReleaseOnPressedNode(button) ==
    /\ MouseInput("Released", button)
    /\ hovered # None
    /\ press_log = Some([node |-> Unwrap(hovered), moved |-> FALSE,
                         released |-> FALSE])

\* the last click was on node h, less than the double-click time before t
InDoubleClickWindow(h, t) ==
    /\ click_log # None
    /\ Unwrap(click_log).node = h
    /\ t - Unwrap(click_log).at < DBL_CLICK_TIME

\* C3 as stated: a press and then a release on the same hovered node, with no
\* cursor move between, append exactly mousedown, mouseup, click at that node.
C3_PressReleaseExactlyThree ==
    [][/\ PressQueuesMousedown
       /\ \A button \in MouseButtons :
              ReleaseOnPressedNode(button) =>
                  queued_events' = queued_events
                      \o <<MouseEvent("mouseup", Unwrap(hovered)),
                           MouseEvent("click", Unwrap(hovered))>>]_vars

\* C3 amended: they append mousedown, mouseup, click at that node, in that
\* order, and after the click a dblclick at that node exactly when the last
\* click was on the same node less than 500 ms earlier; nothing else.
C3_PressReleaseClick ==
    [][/\ PressQueuesMousedown
       /\ \A button \in MouseButtons :
              ReleaseOnPressedNode(button) =>
                  queued_events' = queued_events
                      \o <<MouseEvent("mouseup", Unwrap(hovered)),
                           MouseEvent("click", Unwrap(hovered))>>
                      \o (IF InDoubleClickWindow(Unwrap(hovered), now)
                          THEN <<MouseEvent("dblclick", Unwrap(hovered))>>
                          ELSE <<>>)]_vars

\* C3 witness: the release has come after a press on the hovered node with no
\* move between, and mouseup and click at that node are queued.
C3_Witness ==
    /\ hovered # None
    /\ press_log = Some([node |-> Unwrap(hovered), moved |-> FALSE,
                         released |-> TRUE])
    /\ queued_events = <<MouseEvent("mouseup", Unwrap(hovered)),
                         MouseEvent("click", Unwrap(hovered))>>

\* C4: a press while A is hovered appends mousedown at A, and the release that
\* comes after the cursor has moved to a different node B appends mouseup at
\* B and no click.
C4_NoClickAcrossNodes ==
    [][/\ PressQueuesMousedown
       /\ \A button \in MouseButtons :
              /\ MouseInput("Released", button)
              /\ hovered # None
              /\ press_log # None
              /\ ~Unwrap(press_log).released
              /\ Unwrap(press_log).node # Unwrap(hovered)
              => queued_events' = queued_events
                     \o <<MouseEvent("mouseup", Unwrap(hovered))>>]_vars

\* C4 witness: the button pressed on one node has been released on another,
\* and only the mouseup at the other node is queued.
C4_Witness ==
    /\ hovered # None
    /\ press_log # None
    /\ Unwrap(press_log).released
    /\ Unwrap(press_log).moved
    /\ Unwrap(press_log).node # Unwrap(hovered)
    /\ queued_events = <<MouseEvent("mouseup", Unwrap(hovered))>>

\* a release that appends a click
ReleaseWithClick(button) ==
    /\ MouseInput("Released", button)
    /\ hovered # None
    /\ \E i \in 1..Len(Appended) : Appended[i].name = "click"

\* C5 as stated: the release of a click appends dblclick directly after the
\* click if the last click was on the same node within 500 ms (500 ms
\* included), and no dblclick if it was 501 ms or more before or on another
\* node.
C5_DblClickWithin500 ==
    [][\A button \in MouseButtons :
           ReleaseWithClick(button) =>
               LET h == Unwrap(hovered)
               IN  Appended =
                       <<MouseEvent("mouseup", h), MouseEvent("click", h)>>
                       \o (IF /\ click_log # None
                              /\ Unwrap(click_log).node = h
                              /\ now - Unwrap(click_log).at <= DBL_CLICK_TIME
                           THEN <<MouseEvent("dblclick", h)>>
                           ELSE <<>>)]_vars

\* C5 amended: the release of a click appends dblclick directly after the
\* click if the last click was on the same node less than 500 ms before, and
\* no dblclick if it was 500 ms or more before, on another node, or if there
\* was none.
C5_DblClickBelow500 ==
    [][\A button \in MouseButtons :
           ReleaseWithClick(button) =>
               LET h == Unwrap(hovered)
               IN  Appended =
                       <<MouseEvent("mouseup", h), MouseEvent("click", h)>>
                       \o (IF InDoubleClickWindow(h, now)
                           THEN <<MouseEvent("dblclick", h)>>
                           ELSE <<>>)]_vars

\* C5 witness: a second click on a node, at a later reading of the clock than
\* the construction, has queued dblclick directly after click.
C5_Witness ==
    /\ Len(queued_events) = 3
    /\ queued_events[2].name = "click"
    /\ queued_events[3].name = "dblclick"
    /\ queued_events[3].element = queued_events[2].element
    /\ now > 0
    /\ last_click = Some(now)

SlotAfter(slot, tree) ==
    IF slot # None /\ Unwrap(slot) \notin tree THEN None ELSE slot

\* C6: after prune, each of hovered, last-pressed and last-clicked is empty if
\* its node was in a subtree the batch removes or replaces (the nodes that
\* leave the tree with the batch), and is unchanged otherwise.
C6_PruneClearsSlots ==
    [][rdom' # rdom =>
           /\ hovered' = SlotAfter(hovered, rdom')
           /\ last_pressed_element' = SlotAfter(last_pressed_element, rdom')
           /\ last_clicked_element' = SlotAfter(last_clicked_element, rdom')
           /\ rdom' \subseteq rdom]_vars

\* C6 witness: the subtree of node 2 is gone; hovered, which was in it (the
\* cursor is still over it), is empty, and last-clicked, on node 3, is kept.
C6_Witness ==
    /\ rdom = {1, 3}
    /\ hovered = None
    /\ position = 0
    /\ last_clicked_element = Some(3)

\* C7: no keydown or keyup is queued with a target that is no longer in the
\* tree: the focus reference is cleared when prune removes its node.
C7_NoKeyEventAtRemovedNode ==
    [][\A i \in 1..Len(Appended) :
           Appended[i].name \in {"keydown", "keyup"} =>
               \/ Appended[i].element = None
               \/ Unwrap(Appended[i].element) \in rdom]_vars

\* C9 as stated: a Tab key-down leaves the queue as it was, with or without
\* text.
C9_TabAppendsNothing ==
    [][\A has_text \in BOOLEAN :
           KeyboardInput("Tab", has_text, "Pressed") =>
               queued_events' = queued_events]_vars

\* C9 amended: a Tab key-down appends no keydown and no keyup; it appends one
\* keypress at ElementId(1) when the key event carries text and nothing when
\* it carries none.
C9_TabAppendsKeypressOnly ==
    [][\A has_text \in BOOLEAN :
           KeyboardInput("Tab", has_text, "Pressed") =>
               queued_events' = queued_events
                   \o (IF has_text
                       THEN <<UserEvent("keypress", Some(KeypressTarget),
                                        Some("Tab"))>>
                       ELSE <<>>)]_vars

\* C9 witness: a Tab key-down with text has moved the focus and queued its
\* keypress alone.
C9_Witness ==
    /\ queued_events = <<UserEvent("keypress", Some(KeypressTarget),
                                   Some("Tab"))>>
    /\ last_focused_id # None

\* C10 as stated: no keydown and no keyup for the Tab key is ever in the queue.
C10_NoTabKeydownOrKeyup ==
    \A i \in 1..Len(queued_events) :
        ~(/\ queued_events[i].name \in {"keydown", "keyup"}
          /\ queued_events[i].key = Some("Tab"))

\* C10 amended: no keydown for the Tab key is ever in the queue, and a Tab
\* press appends no keyup; a Tab release appends one keyup for Tab.
C10_NoTabKeydown ==
    [][/\ \A i \in 1..Len(queued_events') :
              ~(/\ queued_events'[i].name = "keydown"
                /\ queued_events'[i].key = Some("Tab"))
       /\ \A has_text \in BOOLEAN :
              /\ KeyboardInput("Tab", has_text, "Pressed") =>
                     \A i \in 1..Len(Appended) : Appended[i].name # "keyup"
              /\ KeyboardInput("Tab", has_text, "Released") =>
                     Appended = <<UserEvent("keyup", last_focused_id,
                                            Some("Tab"))>>]_vars

\* C10 witness: Tab has been pressed, which focused a node, and released, which
\* queued the keyup for Tab at that node.
C10_Witness ==
    /\ last_focused_id # None
    /\ queued_events = <<UserEvent("keyup", last_focused_id, Some("Tab"))>>

\* C11: each Tab key-down calls progress once, forward when Shift is not in
\* the modifier set and backward when it is, and moves the focus by that one
\* call; no other key transition calls progress; and Shift is in the modifier
\* set exactly if the last modifier change had it.
C11_TabCallsProgressOnce ==
    [][/\ \A key \in Keys, has_text \in BOOLEAN, state \in ElementStates :
              KeyboardInput(key, has_text, state) =>
                  IF key = "Tab" /\ state = "Pressed"
                  THEN /\ focus_calls' =
                              <<ProgressCall("SHIFT" \notin modifier_state)>>
                       /\ last_focused_id' =
                              Progress(rdom, last_focused_id,
                                       "SHIFT" \notin modifier_state)
                  ELSE /\ focus_calls' = <<>>
                       /\ last_focused_id' = last_focused_id
       /\ \A mods \in ModifierInputs :
              ModifiersChanged(mods) =>
                  /\ ("SHIFT" \in modifier_state') = mods[4]
                  /\ focus_calls' = <<>>
       /\ (\A mods \in ModifierInputs : ~ModifiersChanged(mods)) =>
              ("SHIFT" \in modifier_state') = ("SHIFT" \in modifier_state)]_vars

\* C11 witness: with Shift held, Tab on a fresh handler has called progress
\* backward once, which focused the last focusable node of the document.
C11_Witness ==
    /\ "SHIFT" \in modifier_state
    /\ focus_calls = <<ProgressCall(FALSE)>>
    /\ last_focused_id = Some(3)

\* the keydown and keyup events among the events a step appends
KeyEventsAppended ==
    SelectSeq(Appended, LAMBDA e : e.name \in {"keydown", "keyup"})

\* C12: every key transition but a Tab key-down appends exactly one keydown
\* (press) or keyup (release), targeted at the last-focused node as it is
\* when the transition is registered, None included; and the last-focused
\* node is what the last set_focus or progress made it.
C12_KeyEventAtFocus ==
    [][/\ \A key \in Keys, has_text \in BOOLEAN, state \in ElementStates :
              /\ KeyboardInput(key, has_text, state)
              /\ ~(key = "Tab" /\ state = "Pressed")
              => KeyEventsAppended =
                     <<UserEvent(IF state = "Pressed" THEN "keydown"
                                 ELSE "keyup",
                                 last_focused_id, Some(key))>>
       /\ last_focused_id' # last_focused_id => focus_calls' # <<>>
       /\ focus_calls' # <<>> /\ focus_calls'[1].op = "set_focus" =>
              last_focused_id' = focus_calls'[1].id]_vars

\* C12 witness: node 2 was clicked, which focused it, and the key pressed
\* after that has queued its keydown at node 2.
C12_Witness ==
    /\ last_clicked_element = Some(2)
    /\ last_focused_id = Some(2)
    /\ queued_events = <<UserEvent("keydown", Some(2), Some("a"))>>

\* C13: a button press or release registered while no node is hovered appends
\* no event, calls nothing on the Focus Controller and leaves the pressed
\* buttons, last-pressed, last-clicked node and time, hovered, the pointer
\* position, the modifiers and the focus as they were.
C13_UnhoveredButtonNoOp ==
    [][\A state \in ElementStates, button \in MouseButtons :
           MouseInput(state, button) /\ hovered = None =>
               /\ UNCHANGED <<queued_events, buttons, last_pressed_element,
                              last_clicked_element, last_click, hovered,
                              position, modifier_state, last_focused_id>>
               /\ focus_calls' = <<>>]_vars

\* C13 witness: after a click the cursor has left every node, and a button
\* transition has been registered there and ignored.
C13_Witness ==
    /\ ignored
    /\ hovered = None
    /\ last_click # None
    /\ buttons = {}
    /\ queued_events = <<>>

\* C14: a button transition calls set_focus, for the hovered node, exactly
\* when it is a release on a node that does not prevent the default of
\* mouseup and is focusable; any other transition, a press included, leaves
\* the focus alone.
C14_FocusOnlyOnRelease ==
    [][\A state \in ElementStates, button \in MouseButtons :
           MouseInput(state, button) =>
               IF /\ state = "Released"
                  /\ hovered # None
                  /\ PreventDefaultOf(Unwrap(hovered)) # "MouseUp"
                  /\ Focusable(Unwrap(hovered))
               THEN /\ focus_calls' = <<SetFocusCall(Unwrap(hovered))>>
                    /\ last_focused_id' = hovered
               ELSE /\ focus_calls' = <<>>
                    /\ last_focused_id' = last_focused_id]_vars

\* the attribute holds the text of a colour
DeclaresColor(attr, c) == attr = Some(Text(ValueText(c)))

\* the attribute is absent or holds no colour that parses
NoValidColor(attr) == \A c \in DeclaredColors : ~DeclaresColor(attr, c)

\* C15: after ForgroundColor is resolved for a node with a valid color
\* declaration of its own, the node's ForgroundColor is the declared colour,
\* with or without a parent and whatever the parent's ForgroundColor is.
C15_OwnColorWins ==
    [][ResolveForeground =>
           \A n \in Elements : \A c \in DeclaredColors :
               DeclaresColor(color_attr[n], c) => color'[n] = c]_vars

\* the root declares color c and no other element declares a color
RootDeclares(c) ==
    /\ DeclaresColor(color_attr[1], c)
    /\ \A n \in Elements \ {1} : color_attr[n] = None

\* C16: with color = V on the root and no color attribute below it, one
\* top-down pass leaves ForgroundColor = V on every node, and reduce reports
\* changed on exactly the nodes that held another colour, which is every node
\* in the first pass after V has changed; a pass that follows a pass with no
\* attribute change between them reports unchanged on every node and changes
\* nothing.
C16_RootColorReachesAll ==
    [][ResolveForeground =>
           /\ \A c \in DeclaredColors :
                  RootDeclares(c) =>
                      /\ \A n \in Node : color'[n] = c
                      /\ \A n \in Node :
                             Unwrap(color_changed')[n] = (color[n] # c)
                      /\ (\E w \in DeclaredColors \ {c} :
                              \A n \in Node : color[n] = w)
                         => \A n \in Node : Unwrap(color_changed')[n]
           /\ color_changed # None =>
                  /\ color' = color
                  /\ \A n \in Node : ~Unwrap(color_changed')[n]]_vars

\* C16 witness: the root's color, once another colour, has been changed to
\* black, and the pass after the change has set every node to black and
\* reported changed on every node.
C16_Witness ==
    /\ RootDeclares(Rgba(0, 0, 0, 255))
    /\ \A n \in Node : color[n] = Rgba(0, 0, 0, 255)
    /\ color_changed = Some([n \in Node |-> TRUE])

\* C17: after BackgroundColor is resolved for a node whose background-color
\* is absent or does not parse, the node's BackgroundColor is the default,
\* whatever it was before.
C17_BackgroundFallsBack ==
    [][ReduceBackground /\ NoValidColor(bg_attr) =>
           bg_color' = BackgroundColorDefault]_vars

\* C18: a BackgroundColor or Border reduce that completes returns changed
\* exactly when the value it leaves differs from the value it found, and a
\* reduce that follows a reduce of the same resolver with no attribute change
\* between them returns unchanged and leaves the value as it is.
C18_NodeLocalIdempotent ==
    [][/\ ReduceBackground =>
              /\ Unwrap(reduced'.bg_color) = (bg_color' # bg_color)
              /\ reduced.bg_color # None =>
                     /\ reduced'.bg_color = Some(FALSE)
                     /\ bg_color' = bg_color
       /\ ReduceBorder /\ ~panicked' =>
              /\ Unwrap(reduced'.border) = (border' # border)
              /\ reduced.border # None =>
                     /\ reduced'.border = Some(FALSE)
                     /\ border' = border]_vars

\* C18 witness: both resolvers have stored a declared value and have then
\* been run again, returning unchanged.
C18_Witness ==
    /\ bg_color # BackgroundColorDefault
    /\ border # BorderDefault
    /\ reduced = [bg_color |-> Some(FALSE), border |-> Some(FALSE)]

\* C19: no reduce panics, whatever values the recognized attributes carry.
C19_NeverPanics == ~panicked

\* the attribute of a name in an enumeration of attributes, None if absent
AttrNamed(view, name) ==
    LET at == {i \in 1..Len(view) : view[i].name = name}
    IN  IF at = {} THEN None ELSE Some((view[CHOOSE i \in at : TRUE]).value)

\* C20: when a node declares border-color = c and border-top-color = d, in
\* either order of enumeration, one Border reduce leaves d on the top edge and
\* c on the three other edges.
C20_LonghandOverridesShorthand ==
    [][ReduceBorder =>
           \A c, d \in DeclaredColors :
               /\ DeclaresColor(AttrNamed(border_attrs, "border-color"), c)
               /\ DeclaresColor(AttrNamed(border_attrs, "border-top-color"), d)
               => border'.colors = [top |-> d, right |-> c, bottom |-> c,
                                    left |-> c]]_vars

\* C21 as stated: every release registered while a node is hovered overwrites
\* the last-click node and time with the hovered node and the current time.
C21_EveryReleaseRecordsClick ==
    [][\A button \in MouseButtons :
           MouseInput("Released", button) /\ hovered # None =>
               /\ last_clicked_element' = hovered
               /\ last_click' = Some(now)]_vars

\* C21 amended: a release that emits a click overwrites the last-click node
\* and time with the hovered node and the current time, with or without a
\* dblclick; a release that emits no click leaves both as they were; so the
\* bookkeeping is always that of the latest click emitted, against which the
\* next click is measured.
C21_ClickReleaseRecordsClick ==
    [][/\ \A button \in MouseButtons :
              MouseInput("Released", button) /\ hovered # None =>
                  IF \E i \in 1..Len(Appended) : Appended[i].name = "click"
                  THEN /\ last_clicked_element' = hovered
                       /\ last_click' = Some(now)
                  ELSE UNCHANGED <<last_clicked_element, last_click>>
       /\ click_log' # None =>
              /\ last_clicked_element' = Some(Unwrap(click_log').node)
              /\ last_click' = Some(Unwrap(click_log').at)]_vars

\* C21 witness: a click on a node, after the clock has moved on, was followed
\* by a second one that fired dblclick, and the bookkeeping holds the time of
\* that second click.
C21_Witness ==
    /\ hovered # None
    /\ Len(queued_events) = 3
    /\ queued_events[3] = MouseEvent("dblclick", Unwrap(hovered))
    /\ now = MaxTime
    /\ last_click = Some(MaxTime)
    /\ last_clicked_element = hovered

\* the keypress events among the events a step appends
KeypressesAppended == SelectSeq(Appended, LAMBDA e : e.name = "keypress")

\* C22: a key-down with text appends one keypress, targeted at ElementId(1)
\* whatever node is focused, and appends it ahead of the keydown of the same
\* transition; a key-down without text and a key-up append no keypress.
C22_KeypressAtRootFirst ==
    [][\A key \in Keys, has_text \in BOOLEAN, state \in ElementStates :
           KeyboardInput(key, has_text, state) =>
               IF state = "Pressed" /\ has_text
               THEN /\ KeypressesAppended =
                           <<UserEvent("keypress", Some(1), Some(key))>>
                    /\ Appended[1].name = "keypress"
               ELSE KeypressesAppended = <<>>]_vars

\* C22 witness: with node 3 focused, a key-down with text has queued its
\* keypress at ElementId(1) and then its keydown at node 3.
C22_Witness ==
    /\ last_focused_id = Some(3)
    /\ queued_events = <<UserEvent("keypress", Some(1), Some("a")),
                         UserEvent("keydown", Some(3), Some("a"))>>

\* every mouseleave of evs targets a node whose latest hover event, in the
\* history that left the set open and then in evs up to it, is a mouseenter
RECURSIVE LeavesFollowEnters(_, _)
LeavesFollowEnters(open, evs) ==
    IF evs = <<>> THEN TRUE
    ELSE LET e == Head(evs)
         IN  /\ e.name = "mouseleave" => Unwrap(e.element) \in open
             /\ LeavesFollowEnters(EnteredAfter(open, <<e>>), Tail(evs))

\* C23: in all that is ever queued, whatever the interleaving of cursor moves,
\* button and key transitions and prunes, a mouseleave at node n comes after a
\* mouseenter at n, with no other mouseleave at n between the two (and with
\* no removal of n between the two either, which is more than is claimed).
C23_LeaveFollowsEnter ==
    [][LeavesFollowEnters(entered, Appended)]_vars

\* C23 witness: after a prune has removed node 3, the cursor has left node 2
\* for the root: the mouseenter at 1 and the mouseleave at 2 are queued.
C23_Witness ==
    /\ 3 \notin rdom
    /\ entered = {1}
    /\ queued_events = <<UserEvent("mouseenter", Some(1), None),
                         UserEvent("mouseleave", Some(2), None)>>

\* a slot after prune is the slot before it, or empty
KeptOrCleared(before, after) == after = before \/ after = None

\* a prune step: one that takes nodes out of the tree, as every batch with a
\* removal does, or the prune of a batch without removals
PruneStep ==
    \/ rdom' # rdom
    \/ \E k \in 1..MaxEdits :
           Prune([i \in 1..k |-> [op |-> "PopRoot", root |-> 0]])

\* C24: prune changes nothing but the hovered, last-pressed and last-clicked
\* slots, and those it only clears: the queue, with the events queued for
\* nodes the batch removes, the time of the last click, the pressed buttons,
\* the pointer coordinates and the modifiers are after prune what they were
\* before.
C24_PruneOnlyClearsSlots ==
    [][PruneStep =>
           /\ queued_events' = queued_events
           /\ last_click' = last_click
           /\ buttons' = buttons
           /\ position' = position
           /\ modifier_state' = modifier_state
           /\ last_focused_id' = last_focused_id
           /\ KeptOrCleared(hovered, hovered')
           /\ KeptOrCleared(last_pressed_element, last_pressed_element')
           /\ KeptOrCleared(last_clicked_element, last_clicked_element')]_vars

\* C24 witness: the mouseenter at node 3 is still queued after the prune that
\* removed node 3 and cleared hovered, with the cursor where it was.
C24_Witness ==
    /\ 3 \notin rdom
    /\ hovered = None
    /\ GetHovered(Node, position * 2) = Some(3)
    /\ queued_events = <<UserEvent("mouseenter", Some(3), None)>>

\* C25: a release registered while a node is hovered leaves the last-pressed
\* slot empty, with or without a click; the click it queues, if any, is the
\* only one, and follows a press on the hovered node that no hovered release
\* has followed yet, so that of two releases with no press between them the
\* second queues no click.
C25_ReleaseConsumesPress ==
    [][\A button \in MouseButtons :
           (hovered # None /\ MouseInput("Released", button)) =>
               /\ last_pressed_element' = None
               /\ Len(SelectSeq(Appended, LAMBDA e : e.name = "click")) <= 1
               /\ (\E i \in 1..Len(Appended) : Appended[i].name = "click") =>
                      /\ press_log # None
                      /\ Unwrap(press_log).node = Unwrap(hovered)
                      /\ ~Unwrap(press_log).released]_vars

\* C25 witness: the press was on node 2 and the release on node 3: no click
\* is queued after the mouseup, and the slot is empty.
C25_Witness ==
    /\ press_log = Some([node |-> 2, moved |-> TRUE, released |-> TRUE])
    /\ hovered = Some(3)
    /\ queued_events = <<UserEvent("mouseup", Some(3), None)>>
    /\ last_pressed_element = None

====
